---- MODULE Spec2Model ----
(***************************************************************************)
(* Gaussian discriminant analysis (linear_models/                          *)
(* gaussian_discriminant_analysis.py): the DiscriminantAnalysis estimator  *)
(* with its fit / _fit_likehood path, and the multivariate Student-t       *)
(* log-density log_multivar_t_pdf with its wrapper mvar_t_pdf.             *)
(*                                                                         *)
(* Arrays are numpy arrays: a record [shape, data] with the data in        *)
(* row-major order.  Real numbers computed by the estimator are exact      *)
(* rationals <<numerator, denominator>> in lowest terms; floating-point    *)
(* rounding is not modelled.                                               *)
(***************************************************************************)
EXTENDS Integers, Sequences, FiniteSets, TLC

\* Bounds of the explored inputs.
MaxSamples == 3
MaxRefitSamples == 2
MaxCalls == 2
MaxCoord == 1
MaxSigma == 2
MaxNu == 2

Features == {1, 2}
Labels == {0, 1}
Values == {0, 1}
None == "None"
Methods == {"MLE", "MAP", "Mean", "Bayes"}

VARIABLES self, calls, method_arg, method, ret, train, pdf_args, pdf_pc, covar_chol, attempts, pdf_ret

est_vars == <<self, calls, method_arg, method, ret, train>>
pdf_vars == <<pdf_args, pdf_pc, covar_chol, attempts, pdf_ret>>
vars == <<self, calls, method_arg, method, ret, train, pdf_args, pdf_pc, covar_chol, attempts, pdf_ret>>

(***************************************************************************)
(* Exact rational arithmetic.                                              *)
(***************************************************************************)
Abs(a) == IF a < 0 THEN -a ELSE a

RECURSIVE Gcd(_, _)
Gcd(a, b) == IF b = 0 THEN a ELSE Gcd(b, a % b)

Rat(n, d) ==
    LET g == Gcd(Abs(n), Abs(d))
        s == IF d < 0 THEN -1 ELSE 1
    IN  <<(s * n) \div g, (s * d) \div g>>

RInt(k) == <<k, 1>>
RAdd(a, b) == Rat(a[1] * b[2] + b[1] * a[2], a[2] * b[2])
RSub(a, b) == Rat(a[1] * b[2] - b[1] * a[2], a[2] * b[2])
RMul(a, b) == Rat(a[1] * b[1], a[2] * b[2])
RDiv(a, b) == Rat(a[1] * b[2], a[2] * b[1])
RLt(a, b) == a[1] * b[2] < b[1] * a[2]
RLe(a, b) == a[1] * b[2] <= b[1] * a[2]
RZero == <<0, 1>>
ROne == <<1, 1>>

RECURSIVE RSum(_)
RSum(s) == IF s = <<>> THEN RZero ELSE RAdd(s[1], RSum(Tail(s)))

RECURSIVE Sum(_)
Sum(s) == IF s = <<>> THEN 0 ELSE s[1] + Sum(Tail(s))

\* The increasing sequence of the elements of a finite set of integers.
RECURSIVE Sorted(_)
Sorted(S) ==
    IF S = {} THEN <<>>
    ELSE LET lo == CHOOSE a \in S : \A b \in S : a <= b
         IN  <<lo>> \o Sorted(S \ {lo})

Range(s) == {s[i] : i \in 1..Len(s)}

(***************************************************************************)
(* numpy arrays.                                                           *)
(***************************************************************************)
Array(shape, data) == [shape |-> shape, data |-> data]

np_shape(A) == A.shape

\* len(y): the length of the first axis.
len(A) == A.shape[1]

\* Entry (i, j) of a 2-d array, X[i, j].
At(A, i, j) == A.data[(i - 1) * A.shape[2] + j]

\* Row i of a 2-d array, X[i, :].
Row(A, i) == [j \in 1..A.shape[2] |-> At(A, i, j)]

\* All arrays of the given shape with entries in vals.
Arrays(shape, size, vals) == {Array(shape, d) : d \in [1..size -> vals]}

\* np.unique(y, return_counts=True): the distinct labels in increasing
\* order, and for each the number of positions holding it.
np_unique(y) ==
    LET classes == Sorted(Range(y.data))
    IN  [classes |-> classes,
         counts |-> [k \in 1..Len(classes) |->
                        Cardinality({i \in 1..Len(y.data) : y.data[i] = classes[k]})]]

\* The rows X[i, :] for i = from..n_samples with y[i] == c, concatenated in
\* the order of i.
RECURSIVE RowsOf(_, _, _, _)
RowsOf(X, y, c, from) ==
    IF from > X.shape[1] THEN <<>>
    ELSE (IF y.data[from] = c THEN Row(X, from) ELSE <<>>) \o RowsOf(X, y, c, from + 1)

\* np.vstack(X[i, :] for i in range(n_samples) if y[i] == c), for the numpy
\* releases that accept a generator of rows (those that do not raise
\* TypeError here for every training set).
np_vstack(X, y, c) ==
    LET flat == RowsOf(X, y, c, 1)
    IN  Array(<<Len(flat) \div X.shape[2], X.shape[2]>>, flat)

\* np.mean(M, axis=1): the mean of each row.
np_mean_axis1(M) ==
    Array(<<M.shape[1]>>,
          [i \in 1..M.shape[1] |-> Rat(Sum(Row(M, i)), M.shape[2])])

\* np.mean(M, axis=0) of a 2-d array: the mean of each column.
np_mean_axis0(M) ==
    Array(<<M.shape[2]>>,
          [j \in 1..M.shape[2] |->
              Rat(Sum([i \in 1..M.shape[1] |-> At(M, i, j)]), M.shape[1])])

\* np.cov(M, bias=True, rowvar=True) of a 2-d array: each ROW of M is a
\* variable and each column an observation.  The rows are centred on their
\* own means, c = M M^T / (number of columns), and the result is squeezed: a
\* single row gives a 0-d array.
np_cov(M) ==
    LET nv == M.shape[1]
        nobs == M.shape[2]
        avg == [a \in 1..nv |-> Rat(Sum(Row(M, a)), nobs)]
        dev(a, j) == RSub(RInt(At(M, a, j)), avg[a])
        c(a, b) == RMul(RSum([j \in 1..nobs |-> RMul(dev(a, j), dev(b, j))]),
                        Rat(1, nobs))
    IN  IF nv = 1 THEN Array(<<>>, <<c(1, 1)>>)
        ELSE Array(<<nv, nv>>,
                   [k \in 1..(nv * nv) |-> c(((k - 1) \div nv) + 1, ((k - 1) % nv) + 1)])

\* np.diag(v): the diagonal of a 2-d array as a 1-d array; the 2-d array
\* with a 1-d array on its diagonal and zeros elsewhere.  Any other number
\* of dimensions raises ValueError("Input must be 1- or 2-d.").
np_diag_ok(v) == Len(v.shape) \in {1, 2}

np_diag(v) ==
    IF Len(v.shape) = 2
    THEN LET k == IF v.shape[1] < v.shape[2] THEN v.shape[1] ELSE v.shape[2]
         IN  Array(<<k>>, [i \in 1..k |-> At(v, i, i)])
    ELSE LET k == v.shape[1]
         IN  Array(<<k, k>>,
                   [e \in 1..(k * k) |->
                       IF (e - 1) \div k = (e - 1) % k THEN v.data[((e - 1) \div k) + 1]
                       ELSE RZero])

(***************************************************************************)
(* DiscriminantAnalysis.                                                   *)
(***************************************************************************)
\* An attribute that has not been assigned is <<>>; an assigned one is <<v>>.
Unset == <<>>
Set(v) == <<v>>
Get(a) == a[1]

\* The outcome of a call: the value returned (as Python prints it) or the
\* exception raised.
Return(v) == [kind |-> "return", value |-> v, exc |-> "", msg |-> ""]
Raise(e, m) == [kind |-> "raise", value |-> "", exc |-> e, msg |-> m]
NoCall == [kind |-> "none", value |-> "", exc |-> "", msg |-> ""]

\* __init__(self, fit_method='MLE', diag_cov=False)
init(fit_method, diag_cov) ==
    [fitted |-> "False", fit_method |-> fit_method, diag_cov |-> diag_cov,
     n_samples |-> Unset, n_features |-> Unset, classes |-> Unset,
     n_classes |-> Unset, n_categories |-> Unset,
     class_prob |-> Unset, class_mu |-> Unset, class_Sigma |-> Unset]

Keys(s) == Range(Get(s.classes))

\* The priors with the counts divided by the number of classes.
class_prob_by_categories(s) ==
    [c \in Keys(s) |-> Rat(Get(s.n_classes)[c], Get(s.n_categories))]

\* self.class_prob = {c: self.n_classes[c] / self.n_samples for c in self.classes}
class_prob_of(s) ==
    [c \in Keys(s) |-> Rat(Get(s.n_classes)[c], Get(s.n_samples))]

\* self.class_mu = {c: np.mean(X[c], axis=0) for c in self.classes}
class_mu_of(s, X) == [c \in Keys(s) |-> np_mean_axis0(X[c])]

\* self.class_Sigma = {c: np.cov(X[c], bias=True, rowvar =True) for c in self.classes}
class_Sigma_of(s, X) == [c \in Keys(s) |-> np_cov(X[c])]

\* _fit_likehood(self, X, y=None): X is the {label: rows} look-up table.  The
\* dictionary of diagonalised covariances is assigned only when np.diag
\* raised for no class; the marker is set last.
fit_likehood(s, X) ==
    LET s1 == [s EXCEPT !.class_prob = Set(class_prob_of(s))]
        s2 == [s1 EXCEPT !.class_mu = Set(class_mu_of(s1, X))]
        s3 == [s2 EXCEPT !.class_Sigma = Set(class_Sigma_of(s2, X))]
        Sigma == Get(s3.class_Sigma)
    IN  IF s3.diag_cov
        THEN IF \E c \in Keys(s3) : ~np_diag_ok(Sigma[c])
             THEN [self |-> s3, ret |-> Raise("ValueError", "Input must be 1- or 2-d.")]
             ELSE [self |-> [s3 EXCEPT !.class_Sigma =
                                Set([c \in Keys(s3) |-> np_diag(np_diag(Sigma[c]))]),
                             !.fitted = "MLE"],
                   ret |-> Return("None")]
        ELSE [self |-> [s3 EXCEPT !.fitted = "MLE"], ret |-> Return("None")]

\* if method is None: method = self.fit_method
effective_method(s, m) == IF m = None THEN s.fit_method ELSE m

\* fit(self, X, y, method=None, alpha=1.0, nu=2, k=1e-3): the estimator, the
\* call's outcome, the final value of the local `method', and the locals
\* handed to _fit_likehood when it was called.
fit(s, X, y, m, tr) ==
    IF Len(np_shape(X)) # 2
    THEN [self |-> s, method |-> m, train |-> tr,
          ret |-> Raise("ValueError",
                        IF Len(np_shape(X)) < 2 THEN "not enough values to unpack"
                        ELSE "too many values to unpack")]
    ELSE
    LET n_samples == np_shape(X)[1]
        n_features == np_shape(X)[2]
        s1 == [s EXCEPT !.n_samples = Set(n_samples), !.n_features = Set(n_features)]
    IN  IF Len(np_shape(y)) # 1
        THEN [self |-> s1, method |-> m, train |-> tr,
              ret |-> Raise("ValueError", "y must have a single dimension!")]
        ELSE IF Len(np_shape(X)) # 2
        THEN [self |-> s1, method |-> m, train |-> tr,
              ret |-> Raise("ValueError", "X must have a double dimensions!")]
        ELSE IF len(y) # n_samples
        THEN [self |-> s1, method |-> m, train |-> tr,
              ret |-> Raise("ValueError", "X, y length mismatch {} !={}")]
        ELSE
        LET u == np_unique(y)
            classes == u.classes
            n_classes == [c \in Range(classes) |->
                             u.counts[CHOOSE k \in 1..Len(classes) : classes[k] = c]]
            s2 == [s1 EXCEPT !.classes = Set(classes), !.n_classes = Set(n_classes),
                             !.n_categories = Set(Len(classes))]
            Xd == [c \in Range(classes) |-> np_vstack(X, y, c)]
            meth == effective_method(s2, m)
        IN  IF meth = "MLE"
            THEN LET r == fit_likehood(s2, Xd)
                     t == Set([X |-> X, y |-> y, lut |-> Xd])
                 IN  IF r.ret.kind = "raise"
                     THEN [self |-> r.self, method |-> meth, train |-> t, ret |-> r.ret]
                     ELSE [self |-> r.self, method |-> meth, train |-> t, ret |-> Return("0")]
            ELSE [self |-> s2, method |-> meth, train |-> tr, ret |-> Return("0")]

(***************************************************************************)
(* log_multivar_t_pdf and mvar_t_pdf.                                      *)
(*                                                                         *)
(* Units: the entries of Sigma are integers counted in units of the        *)
(* default min_sigma (1e-7), and those of X and mu in units of its square  *)
(* root, so that min_sigma * np.eye(p) is the identity matrix and the      *)
(* whitened residuals are pure numbers.  Logarithms are fixed-point, in    *)
(* thousandths (log 2 = 693).  The factorisation is exact: a matrix that   *)
(* is singular in exact arithmetic fails to factor.                        *)
(***************************************************************************)
MinSigma == 1

\* 1000 * log(n), rounded, for n = 1..128.
LogTable ==
    << 0, 693, 1099, 1386, 1609, 1792, 1946, 2079, 2197, 2303, 2398, 2485,
       2565, 2639, 2708, 2773, 2833, 2890, 2944, 2996, 3045, 3091, 3135, 3178,
       3219, 3258, 3296, 3332, 3367, 3401, 3434, 3466, 3497, 3526, 3555, 3584,
       3611, 3638, 3664, 3689, 3714, 3738, 3761, 3784, 3807, 3829, 3850, 3871,
       3892, 3912, 3932, 3951, 3970, 3989, 4007, 4025, 4043, 4060, 4078, 4094,
       4111, 4127, 4143, 4159, 4174, 4190, 4205, 4220, 4234, 4248, 4263, 4277,
       4290, 4304, 4317, 4331, 4344, 4357, 4369, 4382, 4394, 4407, 4419, 4431,
       4443, 4454, 4466, 4477, 4489, 4500, 4511, 4522, 4533, 4543, 4554, 4564,
       4575, 4585, 4595, 4605, 4615, 4625, 4635, 4644, 4654, 4663, 4673, 4682,
       4691, 4700, 4710, 4718, 4727, 4736, 4745, 4754, 4762, 4771, 4779, 4787,
       4796, 4804, 4812, 4820, 4828, 4836, 4844, 4852 >>

\* log of a positive integer; beyond the table, log(n) = log(n / 2) + log 2
\* with the quotient rounded down.
RECURSIVE LogInt(_)
LogInt(n) == IF n <= Len(LogTable) THEN LogTable[n] ELSE LogInt(n \div 2) + 693

\* np.log of a positive rational.
np_log(q) == LogInt(q[1]) - LogInt(q[2])

\* np.log1p
np_log1p(q) == np_log(RAdd(q, ROne))

\* gammaln(k / 2) for an integer k >= 1, by log Gamma(x + 1) = log Gamma(x) + log x
\* from log Gamma(1/2) = log sqrt(pi) and log Gamma(1) = 0.
RECURSIVE gammaln_half(_)
gammaln_half(k) ==
    IF k = 1 THEN 572
    ELSE IF k = 2 THEN 0
    ELSE gammaln_half(k - 2) + np_log(Rat(k - 2, 2))

\* np.exp of a fixed-point logarithm, to one significant decimal digit:
\* mant * 10^exp10.
np_exp(v) ==
    LET e == (v * 1000) \div 2302585
        rem == v - ((e * 2302585) \div 1000)
        mant == CHOOSE d \in 1..9 :
                    /\ LogInt(d) <= rem \/ d = 1
                    /\ d = 9 \/ LogInt(d + 1) > rem
    IN  [mant |-> mant, exp10 |-> e]

\* Sigma * nu
scale(Sigma, nu) == Array(Sigma.shape, [e \in 1..Len(Sigma.data) |-> Sigma.data[e] * nu])

\* The retried matrix with the floor left out.
regularized_without_floor(Sigma, nu, min_sigma, p) == scale(Sigma, nu)

\* Sigma * nu + min_sigma * np.eye(p)
regularized(Sigma, nu, min_sigma, p) ==
    Array(Sigma.shape,
          [e \in 1..Len(Sigma.data) |->
              Sigma.data[e] * nu + (IF (e - 1) \div p = (e - 1) % p THEN min_sigma ELSE 0)])

\* sp.linalg.cholesky(A, lower=True) for p = 1 or 2, reading the lower
\* triangle of A only.  It raises LinAlgError when a pivot is not positive.
\* The factor L is carried without square roots: sq[i] = L[i][i]^2 and
\* low = L[2][1] * L[1][1], that is L = [[sqrt(sq1), 0], [low / sqrt(sq1), sqrt(sq2)]].
cholesky(A) ==
    LET p == A.shape[1]
        a11 == RInt(At(A, 1, 1))
    IN  IF ~RLt(RZero, a11) THEN [ok |-> FALSE, L |-> Unset]
        ELSE IF p = 1 THEN [ok |-> TRUE, L |-> Set([sq |-> <<a11>>, low |-> RZero])]
        ELSE LET a21 == RInt(At(A, 2, 1))
                 piv == RSub(RInt(At(A, 2, 2)), RDiv(RMul(a21, a21), a11))
             IN  IF ~RLt(RZero, piv) THEN [ok |-> FALSE, L |-> Unset]
                 ELSE [ok |-> TRUE, L |-> Set([sq |-> <<a11, piv>>, low |-> a21])]

\* covar_log_det = 2 * np.sum(np.log(np.diag(covar_chol))): log L[i][i] is
\* half the log of sq[i], plus half of log(1e-7) for the unit of Sigma.
covar_log_det_of(L) ==
    2 * Sum([i \in 1..Len(L.sq) |-> (np_log(L.sq[i]) + (-16118)) \div 2])

\* np.linalg.norm(solve_triangular(covar_chol, (x - mu).T, lower=True))**2 for
\* one row x: forward substitution z1 = r1 / L11, z2 = (r2 - L21 z1) / L22,
\* then z1^2 + z2^2.
whitened_norm_sq(L, x, mu) ==
    LET r == [j \in 1..Len(x) |-> RInt(x[j] - mu[j])]
        z1sq == RDiv(RMul(r[1], r[1]), L.sq[1])
    IN  IF Len(x) = 1 THEN z1sq
        ELSE LET t == RSub(r[2], RDiv(RMul(L.low, r[1]), L.sq[1]))
             IN  RAdd(z1sq, RDiv(RMul(t, t), L.sq[2]))

\* norm = gammaln((nu + p) / 2.) - gammaln(nu / 2.) - 0.5 * p * np.log(nu * np.pi)
norm_of(nu, p) ==
    gammaln_half(nu + p) - gammaln_half(nu) - (p * (LogInt(nu) + 1145)) \div 2

\* inner = - (nu + p) * 0.5 * np.log1p(norm**2)
inner_of(nu, p, zsq) == -(((nu + p) * np_log1p(zsq)) \div 2)

PdfNoCall == [kind |-> "none", value |-> <<>>, exc |-> "", msg |-> ""]
PdfReturn(v) == [kind |-> "return", value |-> v, exc |-> "", msg |-> ""]
PdfRaise(e, m) == [kind |-> "raise", value |-> <<>>, exc |-> e, msg |-> m]

\* log_multivar_t_pdf(X, mu, Sigma, nu, min_sigma=1e-7): the outcome, the
\* factor bound to covar_chol and the number of factorisations attempted.
log_multivar_t_pdf(X, mu, Sigma, nu, min_sigma) ==
    LET n == np_shape(X)[1]
        p == np_shape(X)[2]
        first == cholesky(scale(Sigma, nu))
        second == cholesky(regularized(Sigma, nu, min_sigma, p))
        value(L) ==
            [i \in 1..n |->
                - norm_of(nu, p) - inner_of(nu, p, whitened_norm_sq(L, Row(X, i), mu.data))
                - covar_log_det_of(L)]
    IN  IF first.ok
        THEN [ret |-> PdfReturn(value(first.L[1])), covar_chol |-> first.L, attempts |-> 1]
        ELSE IF second.ok
        THEN [ret |-> PdfReturn(value(second.L[1])), covar_chol |-> second.L, attempts |-> 2]
        ELSE [ret |-> PdfRaise("ValueError", "\"covariances\" must be symmetric"),
              covar_chol |-> <<>>, attempts |-> 2]

\* mvar_t_pdf(X, mu, Sigma, nu): np.exp of the log-density, with the default
\* min_sigma; an exception of log_multivar_t_pdf passes through.
mvar_t_pdf(X, mu, Sigma, nu) ==
    LET r == log_multivar_t_pdf(X, mu, Sigma, nu, MinSigma)
    IN  IF r.ret.kind = "raise" THEN r
        ELSE [r EXCEPT !.ret = PdfReturn([i \in 1..Len(r.ret.value) |-> np_exp(r.ret.value[i])])]

(***************************************************************************)
(* The calls the model makes.                                              *)
(***************************************************************************)
\* Feature matrices: every 2-d array of 0..n rows over the feature counts
\* of Features, with entries in Values.
XInputs(n) == UNION {Arrays(<<k, p>>, k * p, Values) : k \in 0..n, p \in Features}

\* Label vectors: every 1-d array of 0..n labels.
YInputs(n) == UNION {Arrays(<<k>>, k, Labels) : k \in 0..n}

MethodInputs == Methods \cup {None}

Zeros(shape, size) == Array(shape, [i \in 1..size |-> 0])

\* Arguments that pass fit's validation, with every method argument.
ValidCalls(n) ==
    {[X |-> d[1], y |-> d[2], method |-> m] :
        d \in {q \in XInputs(n) \X YInputs(n) : len(q[2]) = q[1].shape[1]},
        m \in MethodInputs}

\* Arguments that fail it.  The validation reads only the shapes, so the
\* arrays hold zeros: X of one or three dimensions, y a column vector
\* (shape (k, 1)), or y of another length than X has rows.
XShapes(n) == {Zeros(<<k, p>>, k * p) : k \in 0..n, p \in Features}
YShapes(n) == {Zeros(<<k>>, k) : k \in 0..n}
InvalidCalls(n) ==
    {[X |-> X, y |-> y, method |-> None] :
        X \in {Zeros(<<2>>, 2), Zeros(<<1, 1, 1>>, 1)}, y \in YShapes(n)}
    \cup {[X |-> X, y |-> Zeros(<<k, 1>>, k), method |-> None] :
            X \in XShapes(n), k \in 1..n}
    \cup {[X |-> d[1], y |-> d[2], method |-> None] :
            d \in {q \in XShapes(n) \X YShapes(n) : len(q[2]) # q[1].shape[1]}}

PdfIdle == /\ pdf_args = <<>>
           /\ pdf_pc = "idle"
           /\ covar_chol = <<>>
           /\ attempts = 0
           /\ pdf_ret = PdfNoCall

Init ==
    /\ \E fm \in Methods, dc \in BOOLEAN : self = init(fm, dc)
    /\ calls = 0
    /\ method_arg = None
    /\ method = None
    /\ ret = NoCall
    /\ train = Unset
    /\ PdfIdle

\* est.fit(X, y, method) with arguments of at most n rows.
Fit(n) ==
    /\ \E c \in ValidCalls(n) \cup InvalidCalls(n) :
          \E r \in {fit(self, c.X, c.y, c.method, train)} :
              /\ self' = r.self
              /\ method_arg' = c.method
              /\ method' = r.method
              /\ ret' = r.ret
              /\ train' = r.train
    /\ calls' = calls + 1
    /\ UNCHANGED pdf_vars

\* The life of one estimator: construction, then up to MaxCalls fit calls.
Refit == calls < MaxCalls /\ Fit(MaxRefitSamples)

Next == Refit

Spec == Init /\ [][Next]_vars

\* One fit call on a freshly constructed estimator.
FitFresh == calls = 0 /\ Fit(MaxSamples)

SpecFit == Init /\ [][FitFresh]_vars

\* The arguments of a density call: two rows X of p coordinates, a mean, a
\* symmetric scale matrix (positive definite, singular or indefinite) and
\* the degrees of freedom.
SymmetricMatrices(p) ==
    IF p = 1 THEN {Array(<<1, 1>>, <<a>>) : a \in -1..MaxSigma}
    ELSE {Array(<<2, 2>>, <<a, b, b, c>>) : a \in -1..MaxSigma, b \in -1..MaxSigma,
                                             c \in -1..MaxSigma}

InitPdf ==
    /\ self = init("MLE", FALSE)
    /\ calls = 0
    /\ method_arg = None
    /\ method = None
    /\ ret = NoCall
    /\ train = Unset
    /\ \E p \in Features :
          \E X \in Arrays(<<2, p>>, 2 * p, 0..MaxCoord), mu \in Arrays(<<p>>, p, 0..1),
             Sigma \in SymmetricMatrices(p), nu \in 1..MaxNu :
              pdf_args = Set([X |-> X, mu |-> mu, Sigma |-> Sigma, nu |-> nu])
    /\ pdf_pc = "ready"
    /\ covar_chol = <<>>
    /\ attempts = 0
    /\ pdf_ret = PdfNoCall

\* log_multivar_t_pdf(X, mu, Sigma, nu)
CallLogPdf ==
    /\ pdf_pc = "ready"
    /\ \E r \in {log_multivar_t_pdf(pdf_args[1].X, pdf_args[1].mu, pdf_args[1].Sigma,
                                    pdf_args[1].nu, MinSigma)} :
          /\ pdf_ret' = r.ret
          /\ covar_chol' = r.covar_chol
          /\ attempts' = r.attempts
    /\ pdf_pc' = "log_multivar_t_pdf"
    /\ UNCHANGED <<pdf_args, est_vars>>

\* mvar_t_pdf(X, mu, Sigma, nu)
CallPdf ==
    /\ pdf_pc = "ready"
    /\ \E r \in {mvar_t_pdf(pdf_args[1].X, pdf_args[1].mu, pdf_args[1].Sigma,
                            pdf_args[1].nu)} :
          /\ pdf_ret' = r.ret
          /\ covar_chol' = r.covar_chol
          /\ attempts' = r.attempts
    /\ pdf_pc' = "mvar_t_pdf"
    /\ UNCHANGED <<pdf_args, est_vars>>

NextPdf == CallLogPdf \/ CallPdf

SpecPdf == InitPdf /\ [][NextPdf]_vars

(***************************************************************************)
(* Properties of fit.                                                      *)
(***************************************************************************)
\* The messages of the errors fit raises on its arguments' shapes.
ValidationMessages ==
    {"not enough values to unpack", "too many values to unpack",
     "y must have a single dimension!", "X must have a double dimensions!",
     "X, y length mismatch {} !={}"}

\* The last call got as far as _fit_likehood, with the locals in train.
ReachedMLE == calls > 0 /\ train # Unset /\ method = "MLE" /\ ret.msg \notin ValidationMessages

\* The last call was an MLE fit that returned.
MLEFitted == ReachedMLE /\ ret = Return("0")

\* The positions of y holding label c.
Members(y, c) == {i \in 1..Len(y.data) : y.data[i] = c}

\* The sum of f[i] over the finite set S.
RECURSIVE SetSum(_, _)
SetSum(S, f) ==
    IF S = {} THEN 0
    ELSE LET a == CHOOSE b \in S : TRUE IN f[a] + SetSum(S \ {a}, f)

\* The biased covariance of features j and k over the rows idx of X.
FeatureCov(X, idx, j, k) ==
    LET n == Cardinality(idx)
        colj == [i \in idx |-> At(X, i, j)]
        colk == [i \in idx |-> At(X, i, k)]
        prod == [i \in idx |-> At(X, i, j) * At(X, i, k)]
    IN  RSub(Rat(SetSum(idx, prod), n),
             RMul(Rat(SetSum(idx, colj), n), Rat(SetSum(idx, colk), n)))

\* C1 (as claimed): after a successful MLE fit (covariances not forced
\* diagonal) class_Sigma[c] is, for every class c of y, the n_features x
\* n_features matrix of the biased covariances between features over the
\* rows of class c, whatever the class size.  (Stated on the entries in
\* row-major order, so that numpy's squeezing of a 1 x 1 matrix to a 0-d
\* array is not held against the claim.)
C1_CovarianceOverFeatures ==
    (MLEFitted /\ ~self.diag_cov) =>
        LET X == Get(train).X
            y == Get(train).y
            p == X.shape[2]
            Sigma == Get(self.class_Sigma)
        IN  /\ DOMAIN Sigma = Range(y.data)
            /\ \A c \in Range(y.data) :
                  /\ Len(Sigma[c].data) = p * p
                  /\ \A j, k \in 1..p :
                        Sigma[c].data[(j - 1) * p + k] = FeatureCov(X, Members(y, c), j, k)

\* C2 (as claimed): a fit call that raises one of the validation errors
\* leaves every attribute of the estimator as it was before the call.
C2_FailedValidationMutatesNothing ==
    [][(calls' = calls + 1 /\ ret'.kind = "raise" /\ ret'.msg \in ValidationMessages)
          => self' = self]_vars

\* C3 (as claimed): a fit call with valid X and y whose effective method (the
\* method argument unless it is None, else the configured fit_method) is MAP,
\* Mean or Bayes returns 0 and leaves class_prob, class_mu, class_Sigma and
\* the marker as they were; the call fits the model (returns with the marker
\* "MLE" and the three fields assigned) if and only if the effective method
\* is MLE.
C3_OnlyMLEFits ==
    [][(calls' = calls + 1 /\ ret'.msg \notin ValidationMessages) =>
          LET eff == IF method_arg' = None THEN self.fit_method ELSE method_arg'
              untouched == /\ self'.class_prob = self.class_prob
                           /\ self'.class_mu = self.class_mu
                           /\ self'.class_Sigma = self.class_Sigma
                           /\ self'.fitted = self.fitted
              fits == /\ ret' = Return("0")
                      /\ self'.fitted = "MLE"
                      /\ self'.class_prob # Unset
                      /\ self'.class_mu # Unset
                      /\ self'.class_Sigma # Unset
          IN  /\ eff \in {"MAP", "Mean", "Bayes"} => (ret' = Return("0") /\ untouched)
              /\ eff = "MLE" => fits
              /\ eff # "MLE" => untouched]_vars

\* C5: after a successful MLE fit, for every class c of y the look-up table
\* holds exactly the rows X[i] with y[i] = c, in the order of i, count[c] of
\* them (so the tables are disjoint and together hold every row once), and
\* class_mu[c] is the per-feature arithmetic mean of those rows.
C5_ClassMeanOfPartition ==
    MLEFitted =>
        LET X == Get(train).X
            y == Get(train).y
            lut == Get(train).lut
            p == X.shape[2]
            mu == Get(self.class_mu)
        IN  /\ DOMAIN mu = Range(y.data)
            /\ DOMAIN lut = Range(y.data)
            /\ Sum([k \in 1..Len(Get(self.classes)) |->
                       lut[Get(self.classes)[k]].shape[1]]) = X.shape[1]
            /\ \A c \in Range(y.data) :
                  LET idx == Sorted(Members(y, c))
                      col(j) == SetSum(Members(y, c), [i \in Members(y, c) |-> At(X, i, j)])
                  IN  /\ lut[c].shape = <<Len(idx), p>>
                      /\ Get(self.n_classes)[c] = Len(idx)
                      /\ \A k \in 1..Len(idx) : Row(lut[c], k) = Row(X, idx[k])
                      /\ mu[c].shape = <<p>>
                      /\ \A j \in 1..p :
                            /\ mu[c].data[j][1] * Len(idx) = col(j) * mu[c].data[j][2]
                            /\ mu[c].data[j][2] > 0

\* C5's case: a fit with two classes, one of them with two rows that differ.
C5_Witness ==
    /\ MLEFitted
    /\ Cardinality(Range(Get(train).y.data)) = 2
    /\ \E c \in Range(Get(train).y.data) :
          /\ Get(train).lut[c].shape[1] = 2
          /\ Row(Get(train).lut[c], 1) # Row(Get(train).lut[c], 2)

\* C6: after a successful MLE fit on at least one row, class_prob has one
\* entry per distinct label of y, class_prob[c] = count[c] / n_samples with
\* count[c] the number of positions of y holding c, every prior is in (0, 1],
\* and the priors sum to 1.
C6_PriorsAreFrequencies ==
    (MLEFitted /\ Get(train).X.shape[1] >= 1) =>
        LET y == Get(train).y
            n == Get(train).X.shape[1]
            prob == Get(self.class_prob)
            cs == Sorted(Range(y.data))
        IN  /\ DOMAIN prob = Range(y.data)
            /\ \A c \in Range(y.data) :
                  /\ prob[c][2] > 0
                  /\ prob[c][1] * n = Cardinality(Members(y, c)) * prob[c][2]
                  /\ RLt(RZero, prob[c])
                  /\ RLe(prob[c], ROne)
            /\ RSum([k \in 1..Len(cs) |-> prob[cs[k]]]) = ROne

\* C6's case: a fit with two classes of different sizes.
C6_Witness ==
    /\ MLEFitted
    /\ \E c, d \in Range(Get(train).y.data) :
          Cardinality(Members(Get(train).y, c)) # Cardinality(Members(Get(train).y, d))

\* C7 (as claimed): whenever an MLE fit with diag_cov=False succeeds, the
\* same fit on an estimator constructed with diag_cov=True succeeds too, and
\* its class_Sigma[c] has the shape and the diagonal of the unconstrained
\* estimate and zeros off the diagonal.
C7_DiagonalFitAlsoSucceeds ==
    (MLEFitted /\ ~self.diag_cov) =>
        LET r == fit(init(self.fit_method, TRUE), Get(train).X, Get(train).y, "MLE", Unset)
            full == Get(self.class_Sigma)
        IN  /\ r.ret = Return("0")
            /\ r.self.fitted = "MLE"
            /\ \A c \in DOMAIN full :
                  LET d == Get(r.self.class_Sigma)[c]
                  IN  /\ d.shape = full[c].shape
                      /\ Len(d.shape) = 2
                      /\ \A j, k \in 1..d.shape[1] :
                            At(d, j, k) = IF j = k THEN At(full[c], j, k) ELSE RZero

\* C8 (as claimed): an MLE fit on data in which some class has exactly one
\* member returns, sets the marker, and gives that class an all-zero
\* n_features x n_features covariance matrix, whatever the row's values and
\* for either setting of diag_cov.  (Stated on the entries, as C1 is.)
C8_SingletonClassZeroCovariance ==
    (ReachedMLE /\ \E c \in Range(Get(train).y.data) :
                        Cardinality(Members(Get(train).y, c)) = 1) =>
        /\ ret = Return("0")
        /\ self.fitted = "MLE"
        /\ \A c \in Range(Get(train).y.data) :
              Cardinality(Members(Get(train).y, c)) = 1 =>
                  LET S == Get(self.class_Sigma)[c]
                      p == Get(train).X.shape[2]
                  IN  /\ Len(S.data) = p * p
                      /\ \A e \in 1..Len(S.data) : S.data[e] = RZero

\* C9 (as claimed): whenever the marker is "MLE", class_prob, class_mu and
\* class_Sigma have the stored classes as their keys and class_prob[c] is
\* the stored count of c over the stored n_samples.
C9_FittedFieldsConsistent ==
    self.fitted = "MLE" =>
        /\ DOMAIN Get(self.class_prob) = Keys(self)
        /\ DOMAIN Get(self.class_mu) = Keys(self)
        /\ DOMAIN Get(self.class_Sigma) = Keys(self)
        /\ \A c \in Keys(self) :
              Get(self.class_prob)[c][1] * Get(self.n_samples)
                  = Get(self.n_classes)[c] * Get(self.class_prob)[c][2]

(***************************************************************************)
(* Properties of the density.                                              *)
(***************************************************************************)
PdfDone == pdf_pc \in {"log_multivar_t_pdf", "mvar_t_pdf"}

\* A symmetric integer matrix of order 1 or 2 is positive definite: its
\* leading principal minors are positive.
PosDef(a11, a21, a22, p) ==
    /\ a11 > 0
    /\ p = 2 => a11 * a22 - a21 * a21 > 0

\* L L^T = A for the factor held in covar_chol, A given by its lower triangle.
IsFactorOf(L, a11, a21, a22, p) ==
    /\ Len(L.sq) = p
    /\ L.sq[1] = RInt(a11)
    /\ p = 2 => /\ L.low = RInt(a21)
                /\ RAdd(L.sq[2], RDiv(RMul(L.low, L.low), L.sq[1])) = RInt(a22)

\* The control flow C4 describes, with the error message msg.
RetryOnce(msg) ==
    PdfDone =>
        LET a == pdf_args[1]
            p == a.Sigma.shape[1]
            a11 == At(a.Sigma, 1, 1) * a.nu
            a21 == IF p = 2 THEN At(a.Sigma, 2, 1) * a.nu ELSE 0
            a22 == IF p = 2 THEN At(a.Sigma, 2, 2) * a.nu ELSE 0
            first == PosDef(a11, a21, a22, p)
            second == PosDef(a11 + MinSigma, a21, a22 + MinSigma, p)
        IN  /\ first =>
                  /\ attempts = 1
                  /\ pdf_ret.kind = "return"
                  /\ covar_chol # Unset
                  /\ IsFactorOf(covar_chol[1], a11, a21, a22, p)
            /\ (~first /\ second) =>
                  /\ attempts = 2
                  /\ pdf_ret.kind = "return"
                  /\ covar_chol # Unset
                  /\ IsFactorOf(covar_chol[1], a11 + MinSigma, a21, a22 + MinSigma, p)
            /\ (~first /\ ~second) =>
                  /\ attempts = 2
                  /\ pdf_ret = PdfRaise("ValueError", msg)
                  /\ covar_chol = Unset
            /\ pdf_ret.kind = "raise" <=> (~first /\ ~second)
            /\ pdf_ret.kind = "return" => Len(pdf_ret.value) = a.X.shape[1]

\* C4 (amended): log-density factors Sigma*nu and uses that factor when it
\* succeeds; otherwise it retries exactly once with Sigma*nu + min_sigma*I; it
\* raises ValueError('"covariances" must be symmetric') if and only if both
\* attempts fail, returning nothing, and mvar_t_pdf passes the error on.
C4_RetryOnceThenRaise == RetryOnce("\"covariances\" must be symmetric")

\* C4 (as claimed): the same with the message "must be symmetric
\* positive-definite".
C4_AsClaimed == RetryOnce("must be symmetric positive-definite")

\* C4's case: a 2 x 2 scale matrix for which both factorisations fail, the
\* error leaving through mvar_t_pdf.
C4_Witness ==
    /\ pdf_pc = "mvar_t_pdf"
    /\ attempts = 2
    /\ pdf_ret.kind = "raise"
    /\ pdf_args[1].Sigma.shape[1] = 2

\* (x - mu)^T A^-1 (x - mu) for row i of X, A given by its lower triangle.
Mahalanobis(a, i, a11, a21, a22) ==
    LET p == a.Sigma.shape[1]
        r1 == At(a.X, i, 1) - a.mu.data[1]
        r2 == At(a.X, i, 2) - a.mu.data[2]
    IN  IF p = 1 THEN Rat(r1 * r1, a11)
        ELSE Rat(a22 * r1 * r1 - 2 * a21 * r1 * r2 + a11 * r2 * r2, a11 * a22 - a21 * a21)

\* C10 (as claimed): for positive-definite Sigma the value of log-density at
\* a row depends on the row only through the whitened squared distance d and
\* does not increase with d; in particular a row equal to mu has the
\* greatest value.
C10_ModeAtMu ==
    (pdf_pc = "log_multivar_t_pdf" /\ attempts = 1 /\ pdf_ret.kind = "return") =>
        LET a == pdf_args[1]
            p == a.Sigma.shape[1]
            a11 == At(a.Sigma, 1, 1) * a.nu
            a21 == IF p = 2 THEN At(a.Sigma, 2, 1) * a.nu ELSE 0
            a22 == IF p = 2 THEN At(a.Sigma, 2, 2) * a.nu ELSE 0
            d(i) == Mahalanobis(a, i, a11, a21, a22)
        IN  \A i, j \in 1..a.X.shape[1] :
                /\ d(i) = d(j) => pdf_ret.value[i] = pdf_ret.value[j]
                /\ RLe(d(i), d(j)) => pdf_ret.value[i] >= pdf_ret.value[j]
                /\ Row(a.X, i) = a.mu.data => pdf_ret.value[i] >= pdf_ret.value[j]

====
